---- MODULE Spec2Model ----
(***************************************************************************)
(* A model of bot.py, the DexSpread arbitrage scanner.                     *)
(*                                                                         *)
(* Conventions.                                                            *)
(*  - A Python value that may be None is a sequence of length <= 1:        *)
(*    None is << >> and the value v is << v >>.                            *)
(*  - A price is a decimal number with two fractional digits, held as an   *)
(*    integer number of cents (Usd(100000) is $100,000.00).                *)
(*  - Every other float (units, gross, fees, net, gross_pct) is an exact   *)
(*    rational [num, den] in lowest terms with den > 0.  IEEE rounding of  *)
(*    the float operations is not modelled.                                *)
(*  - A str is a sequence of one-character strings where the code takes it *)
(*    apart (callback data), and a TLA+ string elsewhere.                  *)
(***************************************************************************)
EXTENDS Integers, Sequences, FiniteSets, TLC

VARIABLES
    user_settings,  \* bot.py:22   user_id -> [min_profit |-> int]
    pc,             \* position of each caller's scan_handler coroutine
    threshold,      \* scan_handler local, bot.py:115
    coin_idx,       \* index in COINS of the coin the for loop is at, bot.py:122
    tasks,          \* the fetch_price tasks of the running fetch_coin_prices
    price_dict,     \* scan_handler local, bot.py:124: the last coin's snapshot
    spreads,        \* scan_handler local, bot.py:130: the last coin's spreads
    prices_text,    \* scan_handler local, bot.py:120
    all_spreads,    \* scan_handler local, bot.py:119
    reply,          \* the final message scan_handler sends, bot.py:149/162
    cb,             \* the last /status, /settings or profit_ callback handled
    calc_args,      \* arguments of a direct call of calc_spread
    calc_ret        \* what that call returned

vars == <<user_settings, pc, threshold, coin_idx, tasks, price_dict, spreads,
          prices_text, all_spreads, reply, cb, calc_args, calc_ret>>

scan_vars == <<pc, threshold, coin_idx, tasks, price_dict, spreads, prices_text,
               all_spreads, reply>>

calc_vars == <<calc_args, calc_ret>>

-----------------------------------------------------------------------------
(* Python values *)

None == << >>

Some(v) == << v >>

Usd(dollars) == dollars * 100

Abs(n) == IF n < 0 THEN -n ELSE n

RECURSIVE GCD(_, _)
GCD(a, b) == IF b = 0 THEN a ELSE GCD(b, a % b)

\* the rational n/d (d # 0) in lowest terms with a positive denominator
Rat(n, d) ==
    LET g == GCD(Abs(n), Abs(d))
        s == IF d < 0 THEN -1 ELSE 1
    IN  [num |-> (s * n) \div g, den |-> (s * d) \div g]

RatInt(n) == [num |-> n, den |-> 1]

RatAdd(a, b) == Rat(a.num * b.den + b.num * a.den, a.den * b.den)

RatSub(a, b) == Rat(a.num * b.den - b.num * a.den, a.den * b.den)

\* cross-cancelled first, so that the products stay small
RatMul(a, b) ==
    LET x == Rat(a.num, b.den)
        y == Rat(b.num, a.den)
    IN  [num |-> x.num * y.num, den |-> x.den * y.den]

RatGT(a, b) == a.num * b.den > b.num * a.den

RatGE(a, b) == a.num * b.den >= b.num * a.den

\* the float value of a price held in cents
PriceRat(p) == Rat(p, 100)

\* format(x, ",.0f"): x rounded to an integer, ties to even
Fmt0f(x) ==
    LET q  == x.num \div x.den
        r2 == 2 * (x.num % x.den)
    IN  IF r2 > x.den \/ (r2 = x.den /\ q % 2 = 1) THEN q + 1 ELSE q

-----------------------------------------------------------------------------
(* Configuration, bot.py:25-40 *)

COINS == <<"BTC-USD", "ETH-USD", "SOL-USD", "BNB-USD">>

DEXS == <<"extended", "nado">>

FEES == [extended |-> Rat(25, 100000), nado |-> Rat(35, 100000)]

NOTIONAL == 10000

MIN_PROFIT == 1

DexSet == {DEXS[i] : i \in 1..Len(DEXS)}

CoinSet == {COINS[i] : i \in 1..Len(COINS)}

-----------------------------------------------------------------------------
(* calc_spread, bot.py:66-83.  p1, p2 are None or Some(price in cents).    *)

\* `not p`: None and 0 are falsy
Falsy(p) == p = None \/ p = Some(0)

calc_fees_single_leg(dex1, dex2) ==
    RatAdd(RatMul(FEES[dex1], RatInt(NOTIONAL)),
           RatMul(FEES[dex2], RatInt(NOTIONAL)))

\* bot.py:73
calc_fees(dex1, dex2) ==
    RatAdd(RatMul(RatMul(RatInt(2), FEES[dex1]), RatInt(NOTIONAL)),
           RatMul(RatMul(RatInt(2), FEES[dex2]), RatInt(NOTIONAL)))

\* bot.py:68-70 without the venue swap
canonical_prices_only(p1, p2, dex1, dex2) ==
    IF p1 > p2
    THEN [p1 |-> p2, p2 |-> p1, dex1 |-> dex1, dex2 |-> dex2]
    ELSE [p1 |-> p1, p2 |-> p2, dex1 |-> dex1, dex2 |-> dex2]

\* bot.py:68-70: the lower price and its venue first
canonical(p1, p2, dex1, dex2) ==
    IF p1 > p2
    THEN [p1 |-> p2, p2 |-> p1, dex1 |-> dex2, dex2 |-> dex1]
    ELSE [p1 |-> p1, p2 |-> p2, dex1 |-> dex1, dex2 |-> dex2]

calc_spread(p1, p2, dex1, dex2) ==
    IF Falsy(p1) \/ Falsy(p2) THEN None
    ELSE
      LET c         == canonical(p1[1], p2[1], dex1, dex2)
          diff      == RatSub(PriceRat(c.p2), PriceRat(c.p1))
          units     == Rat(NOTIONAL * 100, c.p1)
          gross     == RatMul(units, diff)
          fees      == calc_fees(c.dex1, c.dex2)
          net       == RatSub(gross, fees)
          gross_pct == RatMul(Rat(diff.num * 100, diff.den * c.p1), RatInt(100))
      IN  Some([cheap     |-> <<c.dex1, c.p1>>,
                expensive |-> <<c.dex2, c.p2>>,
                gross     |-> gross,
                gross_pct |-> gross_pct,
                fees      |-> fees,
                net       |-> net])

-----------------------------------------------------------------------------
(* The venues' HTTP endpoints, as fetch_price sees them, bot.py:55-59.     *)
(* exc is the exception session.get raises ("none": it returns a response),*)
(* status the response's status, markPrice what price_path extracts from   *)
(* the body (None: resp.json() or price_path raises).                      *)

\* how many callers (Telegram user ids) the model has
MaxCallers == 2

Callers == 1..MaxCallers

\* the mark prices a venue may quote for a coin, in cents
MarkPrices ==
    [c \in CoinSet |->
        CASE c = "BTC-USD" -> {Usd(100000), Usd(100080), Usd(100200)}
          [] c = "ETH-USD" -> {Usd(500), Usd(501)}
          [] c = "SOL-USD" -> {Usd(-201), Usd(-200)}
          [] c = "BNB-USD" -> {0, Usd(4000) + 50}]

Quoted(coin) ==
    {[exc |-> "none", status |-> 200, markPrice |-> Some(p)] : p \in MarkPrices[coin]}

Failures(coin) ==
    { [exc |-> "ClientConnectionError", status |-> 0, markPrice |-> None],
      [exc |-> "TimeoutError", status |-> 0, markPrice |-> None],
      [exc |-> "none", status |-> 500,
       markPrice |-> Some(CHOOSE p \in MarkPrices[coin] : \A q \in MarkPrices[coin] : p >= q)],
      [exc |-> "none", status |-> 200, markPrice |-> None] }

Responses(coin) == Quoted(coin) \cup Failures(coin)

AllResponses == UNION {Responses(coin) : coin \in CoinSet}

\* what a task of gather(..., return_exceptions=True) contributes to the list
Returned(dex, price) == [exception |-> FALSE, dex |-> dex, price |-> price]

RaisedException(dex) == [exception |-> TRUE, dex |-> dex, price |-> None]

fetch_price_no_except(dex, resp) ==
    IF resp.exc # "none" THEN RaisedException(dex)
    ELSE IF resp.status # 200 THEN Returned(dex, None)
    ELSE IF resp.markPrice = None THEN RaisedException(dex)
    ELSE Returned(dex, resp.markPrice)

fetch_price_no_status_check(dex, resp) ==
    IF resp.exc # "none" THEN Returned(dex, None)
    ELSE IF resp.markPrice = None THEN Returned(dex, None)
    ELSE Returned(dex, resp.markPrice)

\* bot.py:53-64
fetch_price(dex, resp) ==
    IF resp.exc # "none" THEN Returned(dex, None)            \* except, line 62
    ELSE IF resp.status # 200 THEN Returned(dex, None)       \* line 56
    ELSE IF resp.markPrice = None THEN Returned(dex, None)   \* except, line 62
    ELSE Returned(dex, resp.markPrice)                       \* line 61

-----------------------------------------------------------------------------
(* scan_handler's computation, bot.py:124-147 *)

RECURSIVE Flatten(_)
Flatten(ss) == IF ss = << >> THEN << >> ELSE Head(ss) \o Flatten(Tail(ss))

\* a dict that keeps truthy prices only
build_price_dict_truthy(prices) ==
    Flatten([i \in 1..Len(prices) |->
                IF prices[i].price # None /\ prices[i].price # Some(0)
                THEN << <<prices[i].dex, prices[i].price[1]>> >>
                ELSE << >>])

\* bot.py:124: the dict, in insertion order, as a sequence of <<dex, price>>
build_price_dict(prices) ==
    Flatten([i \in 1..Len(prices) |->
                IF prices[i].price # None
                THEN << <<prices[i].dex, prices[i].price[1]>> >>
                ELSE << >>])

\* str.upper on a venue name
upper(dex) == CASE dex = "extended" -> "EXTENDED" [] dex = "nado" -> "NADO"

\* bot.py:127
format_prices(coin, pd) ==
    [coin  |-> coin,
     lines |-> [i \in 1..Len(pd) |->
                  <<upper(pd[i][1]), Fmt0f(PriceRat(pd[i][2]))>>]]

qualifies_strictly(spread, t) == spread # None /\ RatGT(spread[1].net, RatInt(t))

\* bot.py:135
qualifies(spread, t) == spread # None /\ RatGE(spread[1].net, RatInt(t))

\* bot.py:133 without the test: a venue is compared with itself too
pair_compared_any(d1, d2) == TRUE

\* bot.py:133
pair_compared(d1, d2) == d1 # d2

\* bot.py:130-137
coin_spreads(coin, pd, t) ==
    LET n == Len(pd)
        at(k) ==
            LET i  == ((k - 1) \div n) + 1
                j  == ((k - 1) % n) + 1
                d1 == pd[i][1]
                d2 == pd[j][1]
                spread == IF pair_compared(d1, d2)
                          THEN calc_spread(Some(pd[i][2]),
                                           Some(pd[j][2]), d1, d2)
                          ELSE None
            IN  IF qualifies(spread, t)
                THEN << [coin |-> coin] @@ spread[1] >>
                ELSE << >>
    IN  Flatten([k \in 1..(n * n) |-> at(k)])

\* a max that keeps the last maximum
RECURSIVE max_last_from(_, _, _)
max_last_from(s, i, best) ==
    IF i > Len(s) THEN best
    ELSE max_last_from(s, i + 1, IF RatGE(s[i].net, best.net) THEN s[i] ELSE best)

RECURSIVE max_from(_, _, _)

max_from(s, i, best) ==
    IF i > Len(s) THEN best
    ELSE max_from(s, i + 1, IF RatGT(s[i].net, best.net) THEN s[i] ELSE best)

\* bot.py:143: max(all_spreads, key=lambda x: x['net']) keeps the first maximum
max_net(s) == max_from(s, 2, s[1])

\* :.2f
Fmt2f(x) == Fmt0f(RatMul(x, RatInt(100)))

\* bot.py:142-168: the message that ends the scan
final_message(ss, texts, t) ==
    IF ss # << >>
    THEN LET best == max_net(ss)
         IN  [kind      |-> "deal",
              best      |-> best,
              coin      |-> best.coin,
              deal_id   |-> Len(ss),
              cheap_dex |-> upper(best.cheap[1]),
              cheap_p   |-> Fmt0f(PriceRat(best.cheap[2])),
              exp_dex   |-> upper(best.expensive[1]),
              exp_p     |-> Fmt0f(PriceRat(best.expensive[2])),
              gross     |-> Fmt0f(best.gross),
              gross_pct |-> Fmt2f(best.gross_pct),
              fees      |-> Fmt0f(best.fees),
              net       |-> Fmt0f(best.net),
              tags      |-> <<Len(ss), best.coin, best.cheap[1], best.expensive[1]>>]
    ELSE [kind           |-> "prices",
          threshold      |-> t,
          prices_summary |-> texts]

-----------------------------------------------------------------------------
(* The preference store, bot.py:22, and the handlers that read it *)

NoSettings == [u \in {} |-> [min_profit |-> 0]]

\* a read that ignores the store
get_default_only(settings, user_id) == MIN_PROFIT

\* user_settings.get(user_id, {}).get('min_profit', MIN_PROFIT)
get_min_profit(settings, user_id) ==
    IF user_id \in DOMAIN settings THEN settings[user_id].min_profit ELSE MIN_PROFIT

\* a write that replaces the whole store by the caller's entry
store_only(settings, user_id, profit) == [u \in {user_id} |-> [min_profit |-> profit]]

\* bot.py:198-199
store_min_profit(settings, user_id, profit) ==
    [u \in (DOMAIN settings) \cup {user_id} |->
        IF u = user_id THEN [min_profit |-> profit] ELSE settings[u]]

-----------------------------------------------------------------------------
(* scan_handler, bot.py:112-168, one coroutine per caller.                 *)
(*   idle    no /scan of the caller is being handled                       *)
(*   notify  awaiting msg.answer, line 117                                 *)
(*   gather  awaiting fetch_coin_prices(COINS[coin_idx]), line 123         *)
(*   answer  awaiting the final msg.answer, line 149 or 162                *)
(*   failed  an exception left the handler                                 *)

Pending == [d \in DexSet |-> None]

\* lines 114-117
scan_handler(c) ==
    /\ pc[c] = "idle"
    /\ threshold' = [threshold EXCEPT ![c] = get_min_profit(user_settings, c)]
    /\ pc' = [pc EXCEPT ![c] = "notify"]
    /\ UNCHANGED <<user_settings, coin_idx, tasks, price_dict, spreads, prices_text,
                   all_spreads, reply, cb, calc_vars>>

\* lines 117-123: the notice is sent, the loop starts and the first
\* fetch_coin_prices creates its tasks (lines 47-51)
scan_first_fetch(c) ==
    /\ pc[c] = "notify"
    /\ pc' = [pc EXCEPT ![c] = "gather"]
    /\ coin_idx' = [coin_idx EXCEPT ![c] = 1]
    /\ tasks' = [tasks EXCEPT ![c] = Pending]
    /\ UNCHANGED <<user_settings, threshold, price_dict, spreads, prices_text,
                   all_spreads, reply, cb, calc_vars>>

\* how many of the caller's tasks have finished
finished(c) == Cardinality({d \in DexSet : tasks[c][d] # None})

\* one fetch_price task runs to its end, lines 53-64; seq is its place in the
\* order in which the tasks of this gather finish
fetch_price_done(c, dex, resp) ==
    /\ pc[c] = "gather"
    /\ tasks[c][dex] = None
    /\ resp \in Responses(COINS[coin_idx[c]])
    /\ tasks' = [tasks EXCEPT ![c][dex] =
                    Some([resp |-> resp, result |-> fetch_price(dex, resp),
                          seq |-> finished(c) + 1])]
    /\ UNCHANGED <<user_settings, pc, threshold, coin_idx, price_dict, spreads,
                   prices_text, all_spreads, reply, cb, calc_vars>>

\* results in the order in which the tasks finished (asyncio.as_completed)
gathered_as_completed(c) ==
    [i \in 1..finished(c) |->
        tasks[c][CHOOSE d \in DexSet : tasks[c][d] # None /\ tasks[c][d][1].seq = i][1].result]

\* the list gather returns, line 51: the finished tasks' results in the order
\* of the tasks, that is of DEXS, whatever the order they finished in
gathered(c) ==
    Flatten([i \in 1..Len(DEXS) |->
                IF tasks[c][DEXS[i]] = None THEN << >>
                ELSE << tasks[c][DEXS[i]][1].result >>])

\* a wait that returns with the first finished task (FIRST_COMPLETED)
first_completed(c) == \E d \in DexSet : tasks[c][d] # None

\* line 51: await asyncio.gather(*tasks) resumes when every task has finished
gather_ready(c) == \A d \in DexSet : tasks[c][d] # None

\* the store read again at each use
stored_threshold(c) == get_min_profit(user_settings, c)

\* line 115: threshold is a local, assigned once; lines 134 and 166 read it
scan_threshold(c) == threshold[c]

\* a list shared by every running scan
all_spreads_shared(c) == Flatten([k \in 1..MaxCallers |-> all_spreads[k]])

\* line 119: all_spreads is a local list of the handler
all_spreads_local(c) == all_spreads[c]

\* the same coin again
same_coin_idx(i) == i

\* line 122: for coin in COINS moves to the next coin
next_coin_idx(i) == i + 1

\* gather returns (line 51) and the loop body runs, lines 124-138; then the
\* next fetch_coin_prices starts or, after the last coin, lines 140-168
scan_coin_done(c) ==
    /\ pc[c] = "gather"
    /\ gather_ready(c)
    /\ LET prices == gathered(c)
           coin   == COINS[coin_idx[c]]
       IN  IF \E i \in 1..Len(prices) : prices[i].exception
           THEN \* line 124: unpacking an exception object raises TypeError
                /\ pc' = [pc EXCEPT ![c] = "failed"]
                /\ UNCHANGED <<coin_idx, tasks, price_dict, spreads, prices_text,
                               all_spreads, reply>>
           ELSE LET pd    == build_price_dict(prices)
                    texts == Append(prices_text[c], format_prices(coin, pd))
                    found == coin_spreads(coin, pd, scan_threshold(c))
                    all   == all_spreads_local(c) \o found
                IN  /\ price_dict' = [price_dict EXCEPT ![c] = pd]
                    /\ spreads' = [spreads EXCEPT ![c] = found]
                    /\ prices_text' = [prices_text EXCEPT ![c] = texts]
                    /\ all_spreads' = [all_spreads EXCEPT ![c] = all]
                    /\ tasks' = [tasks EXCEPT ![c] = Pending]
                    /\ IF coin_idx[c] < Len(COINS)
                       THEN /\ coin_idx' = [coin_idx EXCEPT ![c] = next_coin_idx(coin_idx[c])]
                            /\ UNCHANGED <<pc, reply>>
                       ELSE /\ pc' = [pc EXCEPT ![c] = "answer"]
                            /\ reply' = [reply EXCEPT ![c] =
                                    Some(final_message(all, texts, scan_threshold(c)))]
                            /\ UNCHANGED coin_idx
    /\ UNCHANGED <<user_settings, threshold, cb, calc_vars>>

\* the final message is delivered and the handler returns: its locals are gone
scan_return(c) ==
    /\ pc[c] = "answer"
    /\ pc' = [pc EXCEPT ![c] = "idle"]
    /\ threshold' = [threshold EXCEPT ![c] = MIN_PROFIT]
    /\ coin_idx' = [coin_idx EXCEPT ![c] = 0]
    /\ price_dict' = [price_dict EXCEPT ![c] = << >>]
    /\ spreads' = [spreads EXCEPT ![c] = << >>]
    /\ prices_text' = [prices_text EXCEPT ![c] = << >>]
    /\ all_spreads' = [all_spreads EXCEPT ![c] = << >>]
    /\ reply' = [reply EXCEPT ![c] = None]
    /\ UNCHANGED <<user_settings, tasks, cb, calc_vars>>

-----------------------------------------------------------------------------
(* The preference handlers: /status (97-110), /settings (170-192) and the  *)
(* profit_ callback (194-208).  None of them suspends between reading and  *)
(* writing user_settings, so each is one step.                             *)

Str_profit_ == <<"p", "r", "o", "f", "i", "t", "_">>

Digits == <<"0", "1", "2", "3", "4", "5", "6", "7", "8", "9">>

IsDigit(ch) == \E i \in 1..Len(Digits) : Digits[i] = ch

DigitValue(ch) == (CHOOSE i \in 1..Len(Digits) : Digits[i] = ch) - 1

\* str.startswith
startswith(s, prefix) ==
    Len(s) >= Len(prefix) /\ SubSeq(s, 1, Len(prefix)) = prefix

\* str.split(sep): the pieces between the separators
RECURSIVE split_from(_, _, _)
split_from(s, sep, piece) ==
    IF s = << >> THEN << piece >>
    ELSE IF Head(s) = sep THEN << piece >> \o split_from(Tail(s), sep, << >>)
    ELSE split_from(Tail(s), sep, Append(piece, Head(s)))

split(s, sep) == split_from(s, sep, << >>)

RECURSIVE digits_value(_, _)
digits_value(s, acc) ==
    IF s = << >> THEN acc ELSE digits_value(Tail(s), 10 * acc + DigitValue(Head(s)))

\* int(s) for a str of signs, digits, letters and dots: Some(n), or None
\* where int raises ValueError
int_of_str(s) ==
    LET signed == s # << >> /\ Head(s) \in {"-", "+"}
        body   == IF signed THEN Tail(s) ELSE s
    IN  IF body = << >> \/ \E i \in 1..Len(body) : ~IsDigit(body[i])
        THEN None
        ELSE Some((IF signed /\ Head(s) = "-" THEN -1 ELSE 1) * digits_value(body, 0))

\* the callback data of the five buttons, bot.py:177-184
ButtonData ==
    { Str_profit_ \o <<"1">>, Str_profit_ \o <<"5">>, Str_profit_ \o <<"1", "0">>,
      Str_profit_ \o <<"3", "0">>, Str_profit_ \o <<"1", "0", "0">> }

\* callback data no button carries, which a client can still send
ForgedData ==
    { Str_profit_ \o <<"0">>, Str_profit_ \o <<"-", "5">>,
      Str_profit_ \o <<"-", "1", "2">>, Str_profit_ \o <<"a", "b", "c">>,
      Str_profit_ \o <<"1", ".", "5">>, Str_profit_,
      Str_profit_ \o <<"7", "_", "x">> }

CallbackData == ButtonData \cup ForgedData

\* bot.py:196: None where int raises
parsed_profit(data) == int_of_str(split(data, "_")[2])

\* a callback handler that stores nothing unless the value is positive
accepts_positive_only(data) ==
    parsed_profit(data) # None /\ parsed_profit(data)[1] > 0

\* bot.py:196-199: the store is written unless line 196 raised
accepts(data) == parsed_profit(data) # None

profit_callback(c, data) ==
    /\ startswith(data, Str_profit_)
    /\ IF accepts(data)
       THEN /\ user_settings' = store_min_profit(user_settings, c, parsed_profit(data)[1])
            /\ cb' = Some([handler |-> "profit_callback", caller |-> c, data |-> data,
                           raised |-> FALSE, shown |-> parsed_profit(data)])
       ELSE /\ cb' = Some([handler |-> "profit_callback", caller |-> c, data |-> data,
                           raised |-> TRUE, shown |-> None])
            /\ UNCHANGED user_settings
    /\ UNCHANGED <<scan_vars, calc_vars>>

status_handler(c) ==
    /\ cb' = Some([handler |-> "status_handler", caller |-> c, data |-> << >>,
                   raised |-> FALSE, shown |-> Some(get_min_profit(user_settings, c))])
    /\ UNCHANGED <<user_settings, scan_vars, calc_vars>>

settings_handler(c) ==
    /\ cb' = Some([handler |-> "settings_handler", caller |-> c, data |-> << >>,
                   raised |-> FALSE, shown |-> Some(get_min_profit(user_settings, c))])
    /\ UNCHANGED <<user_settings, scan_vars, calc_vars>>

-----------------------------------------------------------------------------
(* A direct call of calc_spread *)

CalcPrices ==
    { None, Some(0), Some(Usd(-201)), Some(Usd(-200)), Some(Usd(500)), Some(Usd(501)),
      Some(Usd(4000) + 50), Some(Usd(100000)), Some(Usd(100002)), Some(Usd(100080)),
      Some(Usd(100200)) }

CalcInputs ==
    { x \in [p1 : CalcPrices, p2 : CalcPrices, dex1 : DexSet, dex2 : DexSet] :
        x.dex1 # x.dex2 }

call_calc_spread ==
    /\ calc_ret = None
    /\ calc_ret' = Some(calc_spread(calc_args.p1, calc_args.p2,
                                    calc_args.dex1, calc_args.dex2))
    /\ UNCHANGED <<user_settings, scan_vars, cb, calc_args>>

-----------------------------------------------------------------------------
(* Specifications *)

NoCall == [p1 |-> None, p2 |-> None, dex1 |-> DEXS[1], dex2 |-> DEXS[2]]

InitHandlers ==
    /\ pc = [c \in Callers |-> "idle"]
    /\ threshold = [c \in Callers |-> MIN_PROFIT]
    /\ coin_idx = [c \in Callers |-> 0]
    /\ tasks = [c \in Callers |-> Pending]
    /\ price_dict = [c \in Callers |-> << >>]
    /\ spreads = [c \in Callers |-> << >>]
    /\ prices_text = [c \in Callers |-> << >>]
    /\ all_spreads = [c \in Callers |-> << >>]
    /\ reply = [c \in Callers |-> None]
    /\ cb = None

\* the store after caller 1's callback profit_-12 (SpecPref reaches it): caller 1
\* scans with a stored threshold, the others with the default
ScanStore == store_min_profit(NoSettings, 1, -12)

\* Spec: /scan, one scan at a time
Init ==
    /\ InitHandlers
    /\ user_settings = ScanStore
    /\ calc_args = NoCall
    /\ calc_ret = None

Next ==
    \E c \in Callers :
        \/ (\A o \in Callers : pc[o] = "idle") /\ scan_handler(c)
        \/ scan_first_fetch(c)
        \/ \E dex \in DexSet, resp \in AllResponses : fetch_price_done(c, dex, resp)
        \/ scan_coin_done(c)
        \/ scan_return(c)

Spec == Init /\ [][Next]_vars

\* SpecPref: the preference handlers from the empty store the bot starts with
InitPref ==
    /\ InitHandlers
    /\ user_settings = NoSettings
    /\ calc_args = NoCall
    /\ calc_ret = None

NextPref ==
    \E c \in Callers :
        \/ \E data \in CallbackData : profit_callback(c, data)
        \/ status_handler(c)
        \/ settings_handler(c)

SpecPref == InitPref /\ [][NextPref]_vars

\* SpecCalc: calc_spread called once on each input of CalcInputs
InitCalc ==
    /\ InitHandlers
    /\ user_settings = NoSettings
    /\ calc_args \in CalcInputs
    /\ calc_ret = None

NextCalc == call_calc_spread

SpecCalc == InitCalc /\ [][NextCalc]_vars

\* In the specifications that interleave handlers a scan has few outcomes: the
\* first venue quotes BTC or times out (bot.py:57, timeout=10), the second
\* quotes BTC, and every other request fails, by a timeout or a status 500
LightQuote == [d \in DexSet |-> IF d = DEXS[1] THEN Usd(100000) ELSE Usd(100200)]

LightResponses(dex) ==
    { r \in AllResponses :
        \/ r.exc = "none" /\ r.status = 200 /\ r.markPrice = Some(LightQuote[dex])
        \/ dex = DEXS[1] /\ r.exc = "TimeoutError"
        \/ dex # DEXS[1] /\ r.status = 500 /\ r.markPrice # Some(LightQuote[dex]) }

\* the callbacks sent in SpecBot: two buttons and one the handler rejects
BotData ==
    { Str_profit_ \o <<"5">>, Str_profit_ \o <<"1", "0">>,
      Str_profit_ \o <<"a", "b", "c">> }

\* SpecBot: the bot from its start, one scan at a time, with callbacks of every
\* caller handled at any await of the scan
NextBot ==
    \E c \in Callers :
        \/ \E data \in BotData : profit_callback(c, data)
        \/ (\A o \in Callers : pc[o] = "idle") /\ scan_handler(c)
        \/ scan_first_fetch(c)
        \/ \E dex \in DexSet : \E resp \in LightResponses(dex) :
                fetch_price_done(c, dex, resp)
        \/ scan_coin_done(c)
        \/ scan_return(c)

SpecBot == InitPref /\ [][NextBot]_vars

\* the store after caller 1's callback profit_10
ConcStore == store_min_profit(NoSettings, 1, 10)

\* SpecConc: the scans of all callers running at the same time
InitConc ==
    /\ InitHandlers
    /\ user_settings \in {NoSettings, ConcStore}
    /\ calc_args = NoCall
    /\ calc_ret = None

NextConc ==
    \E c \in Callers :
        \/ scan_handler(c)
        \/ scan_first_fetch(c)
        \/ \E dex \in DexSet : \E resp \in LightResponses(dex) :
                fetch_price_done(c, dex, resp)
        \/ scan_coin_done(c)
        \/ scan_return(c)

SpecConc == InitConc /\ [][NextConc]_vars

\* SpecLive: SpecConc where every request ends, with a response, an error or
\* at its timeout (bot.py:57), and the event loop resumes a handler whose await
\* has completed.  scan_coin_done(c) is enabled exactly when caller c's gather
\* has every result, and no other step ends that, so the last conjunct says of
\* it what WF_vars(scan_coin_done(c)) says
Fairness ==
    \A c \in Callers :
        /\ WF_vars(scan_first_fetch(c))
        /\ \A dex \in DexSet :
              WF_vars(\E resp \in LightResponses(dex) : fetch_price_done(c, dex, resp))
        /\ WF_vars(scan_return(c))
        /\ []<>~(pc[c] = "gather" /\ gather_ready(c))

SpecLive == InitConc /\ [][NextConc]_vars /\ Fairness

-----------------------------------------------------------------------------
(* Vocabulary of the properties *)

Range(s) == {s[i] : i \in 1..Len(s)}

Choose2(v) == (v * (v - 1)) \div 2

\* the caller's loop has finished at least one coin and its locals are live
CoinDone(c) == pc[c] \in {"gather", "answer"} /\ prices_text[c] # << >>

\* the coin price_dict[c] and spreads[c] belong to
LastCoin(c) == COINS[Len(prices_text[c])]

\* the step of caller c in which gather returns and the loop body runs
CoinStep(c) ==
    /\ pc[c] = "gather"
    /\ \A d \in DexSet : tasks[c][d] # None
    /\ pc'[c] # pc[c] \/ prices_text'[c] # prices_text[c]

\* venues of a snapshot whose price is a tradable quote
ValidVenues(pd) == {i \in 1..Len(pd) : pd[i][2] > 0}

\* the entries of all_spreads[c] that belong to a coin
SpreadsOf(c, coin) == SelectSeq(all_spreads[c], LAMBDA sp : sp.coin = coin)

\* net >= t, on the numerator and denominator of net
NetAtLeast(sp, t) == sp.net.num >= t * sp.net.den

-----------------------------------------------------------------------------
(* C1: for every instrument, V venues with a valid price yield C(V,2)      *)
(* Spreads, one per unordered venue pair, never one per ordered pair.      *)
(* Stated on the qualifying Spreads of the coin the loop has just done:    *)
(* there are at most C(V,2) of them.  The code violates it.                *)
C1_OneSpreadPerUnorderedPair ==
    \A c \in Callers :
        CoinDone(c) =>
            Len(spreads[c]) <= Choose2(Cardinality(ValidVenues(price_dict[c])))

-----------------------------------------------------------------------------
(* C2: a venue is in the coin's snapshot if and only if its own request    *)
(* returned status 200 with a parseable price, whatever the other venue's  *)
(* request did; a request that ends leaves its sibling and the scan alone. *)
Succeeded(resp) == resp.exc = "none" /\ resp.status = 200 /\ resp.markPrice # None

C2_FailureIsolation ==
    [][\A c \in Callers :
         /\ CoinStep(c) =>
              /\ pc'[c] # "failed"
              /\ \A d \in DexSet :
                   LET resp == tasks[c][d][1].resp
                   IN  IF Succeeded(resp)
                       THEN <<d, resp.markPrice[1]>> \in Range(price_dict'[c])
                       ELSE \A e \in Range(price_dict'[c]) : e[1] # d
         /\ \A d \in DexSet :
              (pc[c] = "gather" /\ tasks[c][d] = None /\ tasks'[c][d] # None) =>
                 /\ pc'[c] = "gather"
                 /\ \A o \in DexSet \ {d} : tasks'[c][o] = tasks[c][o]
      ]_vars

\* a snapshot that holds one venue's Quote although the other venue failed
C2_Witness ==
    \E c \in Callers : CoinDone(c) /\ Len(price_dict[c]) = 1

-----------------------------------------------------------------------------
(* C3: a Spread computed in a scan is in the qualifying set if and only if *)
(* its net is at least the caller's threshold; hence what would qualify    *)
(* under a larger threshold is a subset of what qualifies, and at          *)
(* threshold 1 no Spread with a negative net qualifies.                    *)

\* the thresholds a caller can have: the default and what a callback stores
Thresholds ==
    {MIN_PROFIT} \cup {parsed_profit(d)[1] : d \in {x \in CallbackData : accepts(x)}}

\* the Spreads the loop computes for a snapshot, before the threshold test
Computed(coin, pd) ==
    { [coin |-> coin] @@ calc_spread(Some(pd[i][2]), Some(pd[j][2]), pd[i][1], pd[j][1])[1] :
        <<i, j>> \in { x \in (1..Len(pd)) \X (1..Len(pd)) :
                         /\ x[1] # x[2]
                         /\ calc_spread(Some(pd[x[1]][2]), Some(pd[x[2]][2]),
                                        pd[x[1]][1], pd[x[2]][1]) # None } }

C3_ThresholdFiltering ==
    \A c \in Callers :
        CoinDone(c) =>
            LET t    == threshold[c]
                comp == Computed(LastCoin(c), price_dict[c])
            IN  /\ \A sp \in comp : sp \in Range(spreads[c]) <=> NetAtLeast(sp, t)
                /\ Range(spreads[c]) \subseteq comp
                /\ Range(spreads[c]) \subseteq Range(all_spreads[c])
                /\ \A sp \in Range(all_spreads[c]) : NetAtLeast(sp, t)
                /\ \A t2 \in Thresholds :
                     t2 >= t => {sp \in comp : NetAtLeast(sp, t2)} \subseteq Range(spreads[c])
                /\ t = 1 => \A sp \in Range(all_spreads[c]) : sp.net.num > 0

\* at threshold 1 a coin's only Spreads have a negative net and are left out,
\* after an earlier coin's Spread qualified
C3_Witness ==
    \E c \in Callers :
        /\ CoinDone(c)
        /\ threshold[c] = 1
        /\ Computed(LastCoin(c), price_dict[c]) # {}
        /\ \A sp \in Computed(LastCoin(c), price_dict[c]) : sp.net.num < 0
        /\ spreads[c] = << >>
        /\ all_spreads[c] # << >>

-----------------------------------------------------------------------------
(* C4: when the qualifying set is non-empty the reported best Spread is a  *)
(* member of it whose net is at least every other member's, and among      *)
(* equal maximal nets the first in instrument/venue iteration order; when  *)
(* the set is empty no best Spread is reported.                            *)

CoinIndex(coin) == CHOOSE i \in 1..Len(COINS) : COINS[i] = coin

NetLess(a, b) == a.net.num * b.net.den < b.net.num * a.net.den

C4_BestSpreadSelection ==
    \A c \in Callers :
        pc[c] = "answer" =>
            LET a == all_spreads[c]
                r == reply[c][1]
            IN  /\ \A i, j \in 1..Len(a) :
                     i < j => CoinIndex(a[i].coin) <= CoinIndex(a[j].coin)
                /\ IF a = << >>
                   THEN r.kind = "prices"
                   ELSE /\ r.kind = "deal"
                        /\ \E i \in 1..Len(a) :
                             /\ r.best = a[i]
                             /\ \A j \in 1..Len(a) : ~NetLess(a[i], a[j])
                             /\ \A j \in 1..(i - 1) : NetLess(a[j], a[i])
                        /\ r.coin = r.best.coin
                        /\ r.cheap_dex = upper(r.best.cheap[1])
                        /\ r.exp_dex = upper(r.best.expensive[1])

\* Spreads of two coins tie for the maximal net and a lower net qualifies too
C4_Witness ==
    \E c \in Callers :
        /\ pc[c] = "answer"
        /\ LET a == all_spreads[c]
           IN  \E i, j, k \in 1..Len(a) :
                 /\ i < j
                 /\ a[i].coin # a[j].coin
                 /\ a[i].net = a[j].net
                 /\ NetLess(a[k], a[i])
                 /\ \A m \in 1..Len(a) : ~NetLess(a[i], a[m])

-----------------------------------------------------------------------------
(* C7: whatever the requests do, a scan never ends in an error; when every *)
(* venue of an instrument fails, the instrument gets an empty snapshot and *)
(* no Spreads and the scan goes on; when every venue of every instrument   *)
(* fails, the scan ends with the no-qualifying-spread report.              *)
C7_TotalOutageNotFatal ==
    [][\A c \in Callers :
         /\ pc'[c] # "failed"
         /\ (CoinStep(c) /\ \A d \in DexSet : ~Succeeded(tasks[c][d][1].resp)) =>
              /\ price_dict'[c] = << >>
              /\ spreads'[c] = << >>
              /\ all_spreads'[c] = all_spreads[c]
              /\ prices_text'[c] =
                    Append(prices_text[c], [coin |-> COINS[coin_idx[c]], lines |-> << >>])
              /\ IF coin_idx[c] < Len(COINS)
                 THEN /\ pc'[c] = "gather"
                      /\ coin_idx'[c] = coin_idx[c] + 1
                      /\ tasks'[c] = Pending
                 ELSE /\ pc'[c] = "answer"
                      /\ (\A i \in 1..Len(prices_text'[c]) : prices_text'[c][i].lines = << >>)
                            => /\ reply'[c][1].kind = "prices"
                               /\ Len(reply'[c][1].prices_summary) = Len(COINS)
      ]_vars

\* a scan in which every request failed has ended with the price report
C7_Witness ==
    \E c \in Callers :
        /\ pc[c] = "answer"
        /\ Len(prices_text[c]) = Len(COINS)
        /\ \A i \in 1..Len(prices_text[c]) : prices_text[c][i].lines = << >>
        /\ reply[c][1].kind = "prices"

-----------------------------------------------------------------------------
(* C10: an instrument whose snapshot has fewer than 2 venues yields no     *)
(* Spread and no error; if that is so for every instrument the scan ends   *)
(* with the no-spread report.                                              *)
C10_MissingData ==
    \A c \in Callers :
        /\ pc[c] # "failed"
        /\ CoinDone(c) /\ Len(price_dict[c]) < 2 => spreads[c] = << >>
        /\ \A i \in 1..Len(prices_text[c]) :
              Len(prices_text[c][i].lines) < 2 =>
                 SpreadsOf(c, prices_text[c][i].coin) = << >>
        /\ (/\ pc[c] = "answer"
            /\ \A i \in 1..Len(prices_text[c]) : Len(prices_text[c][i].lines) < 2)
              => /\ reply[c][1].kind = "prices"
                 /\ reply[c][1].prices_summary = prices_text[c]

\* a scan has ended in which some venue answered for some instrument, but
\* never two for the same one
C10_Witness ==
    \E c \in Callers :
        /\ pc[c] = "answer"
        /\ \A i \in 1..Len(prices_text[c]) : Len(prices_text[c][i].lines) < 2
        /\ \E i \in 1..Len(prices_text[c]) : Len(prices_text[c][i].lines) = 1
        /\ Len(price_dict[c]) = 1
        /\ reply[c][1].kind = "prices"

-----------------------------------------------------------------------------
(* Vocabulary of the properties of calc_spread *)

Called == calc_ret # None

\* the Spread the call returned, where it returned one
Ret == calc_ret[1][1]

ReturnedSpread == Called /\ calc_ret[1] # None

\* a price that is missing, zero or negative
NotTradable(p) == p = None \/ p[1] <= 0

\* the exact value of N * (hi - lo) / lo for prices in cents
ExpectedGross(lo, hi) == RatMul(RatInt(NOTIONAL), Rat(hi - lo, lo))

\* the exact value of 2 * N * (f_cheap + f_expensive)
ExpectedFees(cheap_dex, exp_dex) ==
    RatMul(RatInt(2 * NOTIONAL), RatAdd(FEES[cheap_dex], FEES[exp_dex]))

\* the call of the scenario: A = extended at 100000, B = nado at 100080
ScenarioCall ==
    /\ {calc_args.p1, calc_args.p2} = {Some(Usd(100000)), Some(Usd(100080))}
    /\ (calc_args.p1 = Some(Usd(100000))) <=> (calc_args.dex1 = "extended")

-----------------------------------------------------------------------------
(* C5: a pair in which a price is missing, zero or negative yields no      *)
(* Spread (and no error), so no venue with such a price is ever the cheap  *)
(* or the expensive leg of a Spread.  The code violates it for negative    *)
(* prices.                                                                 *)
C5_NonPositivePriceInvalidatesPair ==
    Called =>
        /\ (NotTradable(calc_args.p1) \/ NotTradable(calc_args.p2)) => calc_ret[1] = None
        /\ ReturnedSpread => Ret.cheap[2] > 0 /\ Ret.expensive[2] > 0

-----------------------------------------------------------------------------
(* C8 as stated: gross = N*(p2-p1)/p1, fees = 2*N*(f_cheap+f_expensive),   *)
(* net = gross - fees, and for A = 100000, B = 100080 gross is 8.00, fees  *)
(* 6.00, net 2.00, so that the Spread qualifies at threshold 1.            *)
C8_AsStated ==
    ReturnedSpread =>
        /\ Ret.gross = ExpectedGross(Ret.cheap[2], Ret.expensive[2])
        /\ Ret.fees = ExpectedFees(Ret.cheap[1], Ret.expensive[1])
        /\ Ret.net = RatSub(Ret.gross, Ret.fees)
        /\ ScenarioCall =>
              /\ Ret.gross = RatInt(8)
              /\ Ret.fees = RatInt(6)
              /\ Ret.net = RatInt(2)
              /\ NetAtLeast(Ret, MIN_PROFIT)

(* C8, amended: the formulas as stated; for A = 100000, B = 100080 gross   *)
(* is 8.00, fees are 12.00 and net is -4.00, the Spread is cheap = A at    *)
(* 100000, expensive = B at 100080, and it does not qualify at threshold 1.*)
C8_FeeAdjustedProfit ==
    ReturnedSpread =>
        /\ Ret.gross = ExpectedGross(Ret.cheap[2], Ret.expensive[2])
        /\ Ret.fees = ExpectedFees(Ret.cheap[1], Ret.expensive[1])
        /\ Ret.net = RatSub(Ret.gross, Ret.fees)
        /\ ScenarioCall =>
              /\ Ret.gross = RatInt(8)
              /\ Ret.fees = RatInt(12)
              /\ Ret.net = RatInt(-4)
              /\ Ret.cheap = <<"extended", Usd(100000)>>
              /\ Ret.expensive = <<"nado", Usd(100080)>>
              /\ ~qualifies(calc_ret[1], MIN_PROFIT)

\* the scenario's call has returned its Spread
C8_Witness == ReturnedSpread /\ ScenarioCall

-----------------------------------------------------------------------------
(* C9: every Spread calc_spread returns, for either order of the venues,   *)
(* has cheap.price <= expensive.price; its cheap leg is the venue that     *)
(* quoted the lower price, at that price, and its expensive leg the other  *)
(* venue at its price.                                                     *)
C9_Canonical ==
    ReturnedSpread =>
        LET a == <<calc_args.dex1, calc_args.p1[1]>>
            b == <<calc_args.dex2, calc_args.p2[1]>>
        IN  /\ Ret.cheap[2] <= Ret.expensive[2]
            /\ a[2] < b[2] => Ret.cheap = a /\ Ret.expensive = b
            /\ b[2] < a[2] => Ret.cheap = b /\ Ret.expensive = a
            /\ {Ret.cheap, Ret.expensive} = {a, b}

\* a call whose first venue quoted the higher price has returned a Spread
C9_Witness ==
    /\ ReturnedSpread
    /\ calc_args.p1[1] > calc_args.p2[1]
    /\ Ret.cheap[1] = calc_args.dex2

-----------------------------------------------------------------------------
(* C6: a preference update whose value is not a positive number is         *)
(* rejected and leaves the store as it was: only positive values are ever  *)
(* stored.  The code violates it for zero and negative integers.           *)
C6_OnlyPositiveStored ==
    \A u \in DOMAIN user_settings : user_settings[u].min_profit > 0

-----------------------------------------------------------------------------
(* The preference store and the scans together *)

\* the caller's entry of a store: Some(value), or None where it has none
EntryOf(settings, c) ==
    IF c \in DOMAIN settings THEN Some(settings[c].min_profit) ELSE None

\* the callbacks of SpecBot that carry a number, with that number
Pressed == { <<Str_profit_ \o <<"5">>, 5>>, <<Str_profit_ \o <<"1", "0">>, 10>> }

\* the last callback handled was caller c's, with data d, and it did not raise
Updated(last, c, d) ==
    /\ last # None
    /\ last[1].handler = "profit_callback"
    /\ last[1].caller = c
    /\ last[1].data = d
    /\ ~last[1].raised

\* C11: a scan that starts takes as its threshold the value last stored for
\* its caller, or MIN_PROFIT when the caller has no entry; an entry changes only
\* in a completed update of that caller, which stores the number sent verbatim,
\* so the next scan of the caller uses it
C11_ThresholdResolution ==
    [][\A c \in Callers :
          /\ (pc[c] = "idle" /\ pc'[c] = "notify") =>
                threshold'[c] = IF EntryOf(user_settings, c) = None THEN MIN_PROFIT
                                ELSE EntryOf(user_settings, c)[1]
          /\ EntryOf(user_settings', c) # EntryOf(user_settings, c) =>
                \E b \in Pressed : Updated(cb', c, b[1])
          /\ \A b \in Pressed :
                Updated(cb', c, b[1]) => EntryOf(user_settings', c) = Some(b[2])
      ]_vars

\* a scan of a caller whose last callback stored 10 has started
C11_Witness ==
    \E c \in Callers :
        /\ pc[c] = "notify"
        /\ threshold[c] = 10
        /\ Updated(cb, c, Str_profit_ \o <<"1", "0">>)

\* caller c's scan takes a step
ScanStep(c) ==
    \/ pc'[c] # pc[c]
    \/ tasks'[c] # tasks[c]
    \/ coin_idx'[c] # coin_idx[c]

\* C12: in every interleaving of callbacks and scans of several callers no
\* update is lost and no handler touches another caller's entry: a step of a
\* scan leaves the store alone, a callback of one caller leaves every other
\* caller's entry alone, and after a caller's completed update its entry is
\* the number that update sent
C12_StoreUnderConcurrency ==
    [][\A c \in Callers :
          /\ ScanStep(c) => user_settings' = user_settings
          /\ (cb' # cb /\ cb'[1].caller = c) =>
                /\ \A u \in Callers \ {c} :
                      EntryOf(user_settings', u) = EntryOf(user_settings, u)
                /\ \A b \in Pressed :
                      cb'[1].data = b[1] => EntryOf(user_settings', c) = Some(b[2])
                /\ (\A b \in Pressed : cb'[1].data # b[1]) =>
                      EntryOf(user_settings', c) = EntryOf(user_settings, c)
      ]_vars

\* two callers hold different values, the second stored while the first scans
C12_Witness ==
    /\ pc[1] = "gather"
    /\ threshold[1] = 5
    /\ EntryOf(user_settings, 1) = Some(5)
    /\ EntryOf(user_settings, 2) = Some(10)
    /\ Updated(cb, 2, Str_profit_ \o <<"1", "0">>)

-----------------------------------------------------------------------------
(* Waiting for the venues *)

\* a request of caller c for the current coin has not finished
InFlight(c) == pc[c] = "gather" /\ \E d \in DexSet : tasks[c][d] = None

\* C13: the snapshot of a coin is built and its Spreads are computed only
\* after every venue request for that coin has finished: while a request is in
\* flight no step writes price_dict, spreads, prices_text or all_spreads, and
\* as long as the scan waits the coin under request has no snapshot
C13_NoPartialSnapshots ==
    [][\A c \in Callers :
          /\ InFlight(c) =>
                /\ price_dict'[c] = price_dict[c]
                /\ spreads'[c] = spreads[c]
                /\ prices_text'[c] = prices_text[c]
                /\ all_spreads'[c] = all_spreads[c]
                /\ pc'[c] = "gather" /\ coin_idx'[c] = coin_idx[c]
          /\ pc'[c] = "gather" => Len(prices_text'[c]) = coin_idx'[c] - 1
      ]_vars

\* the first coin's snapshot holds both venues and one request for the second
\* coin has finished while the other is in flight
C13_Witness ==
    \E c \in Callers :
        /\ InFlight(c)
        /\ coin_idx[c] = 2
        /\ Len(price_dict[c]) = 2
        /\ \E d \in DexSet : tasks[c][d] # None

\* the outcome of each venue's request for the current coin, without the
\* order in which the requests finished
Outcome(c) == [d \in DexSet |-> tasks[c][d][1].resp]

\* the snapshot the outcomes give: the venues that succeeded, in the order of
\* DEXS, with the price each quoted
SnapshotOf(outcome) ==
    Flatten([i \in 1..Len(DEXS) |->
                IF Succeeded(outcome[DEXS[i]])
                THEN << <<DEXS[i], outcome[DEXS[i]].markPrice[1]>> >>
                ELSE << >>])

\* C14: what gather's return produces depends on the venues' outcomes by venue
\* and not on the order in which the requests finished: the snapshot, the
\* coin's qualifying list with its order, the accumulated list and, at the end
\* of the scan, the best Spread are those the outcomes alone determine
C14_ArrivalOrderIndependence ==
    [][\A c \in Callers :
          (CoinStep(c) /\ pc'[c] # "failed") =>
              LET snap == SnapshotOf(Outcome(c))
                  coin == COINS[coin_idx[c]]
                  list == coin_spreads(coin, snap, threshold[c])
              IN  /\ price_dict'[c] = snap
                  /\ spreads'[c] = list
                  /\ all_spreads'[c] = all_spreads[c] \o list
                  /\ prices_text'[c] = Append(prices_text[c], format_prices(coin, snap))
                  /\ (pc'[c] = "answer" /\ all_spreads'[c] # << >>) =>
                        reply'[c][1].best = max_net(all_spreads[c] \o list)
      ]_vars

\* gather is about to return for the second coin: both venues quoted and the
\* second venue of DEXS answered first; the first coin's snapshot, built from
\* two quotes, lists the venues in the order of DEXS
C14_Witness ==
    \E c \in Callers :
        /\ pc[c] = "gather" /\ gather_ready(c)
        /\ coin_idx[c] = 2
        /\ \A d \in DexSet : Succeeded(Outcome(c)[d])
        /\ tasks[c][DEXS[2]][1].seq = 1
        /\ tasks[c][DEXS[1]][1].seq = 2
        /\ Len(price_dict[c]) = 2
        /\ price_dict[c][1][1] = DEXS[1]
        /\ spreads[c] # << >>

-----------------------------------------------------------------------------
(* The end of a scan *)

\* the final message of caller c's scan is built and about to be delivered
Answering(c) == pc[c] = "answer"

\* C15: when every request ends and the event loop resumes the handler, every
\* scan that has started reaches its final message and returns; the final
\* message is exactly one of the deal report (some Spread qualified) and the
\* price report (none did), no exception ends the scan, and each return of
\* gather moves the loop to the next coin or to the final message, so that no
\* coin is requested twice
C15_ScanTermination ==
    /\ \A c \in Callers : (pc[c] = "notify") ~> Answering(c)
    /\ \A c \in Callers : Answering(c) ~> (pc[c] = "idle")
    /\ [](\A c \in Callers :
            /\ pc[c] # "failed"
            /\ Answering(c) <=> reply[c] # None
            /\ Answering(c) =>
                  /\ reply[c][1].kind \in {"deal", "prices"}
                  /\ reply[c][1].kind = "deal" <=> all_spreads[c] # << >>
                  /\ Len(prices_text[c]) = Len(COINS))
    /\ [][\A c \in Callers :
            /\ CoinStep(c) =>
                  \/ Answering(c)' /\ coin_idx[c] = Len(COINS)
                  \/ pc'[c] = "gather" /\ coin_idx'[c] = coin_idx[c] + 1
            /\ Answering(c) => (reply'[c] = reply[c] \/ pc'[c] = "idle")
       ]_vars

\* a scan in which only the second venue's BTC request succeeded is about to
\* deliver its price report
C15_Witness ==
    \E c \in Callers :
        /\ Answering(c)
        /\ reply[c][1].kind = "prices"
        /\ Len(prices_text[c][1].lines) = 1
        /\ \A i \in 2..Len(COINS) : prices_text[c][i].lines = << >>

-----------------------------------------------------------------------------
(* Scans side by side *)

\* everything caller c's scan holds
ScanLocals(c) ==
    <<pc[c], threshold[c], coin_idx[c], tasks[c], price_dict[c], spreads[c],
      prices_text[c], all_spreads[c], reply[c]>>

\* C16: a scan writes neither the preference store nor anything another scan
\* reads, and what it produces is determined by its own threshold and the
\* outcomes of its own requests: each step changes the locals of one scan
\* only, the return of gather extends the scan's list by what its threshold
\* and outcomes give, the final message is the one its own list, snapshots and
\* threshold give, and two scans that are at the same coin with the same
\* threshold and the same snapshot hold the same Spreads for it, whatever
\* other scans run alongside
C16_ScansIndependent ==
    [][/\ user_settings' = user_settings
       /\ \A c \in Callers :
            /\ ScanStep(c) =>
                  \A o \in Callers \ {c} : ScanLocals(o)' = ScanLocals(o)
            /\ CoinStep(c) =>
                  /\ spreads'[c] = coin_spreads(COINS[coin_idx[c]],
                                                SnapshotOf(Outcome(c)), threshold[c])
                  /\ all_spreads'[c] = all_spreads[c] \o spreads'[c]
            /\ Answering(c)' =>
                  reply'[c] = Some(final_message(all_spreads'[c], prices_text'[c],
                                                 threshold'[c]))
       /\ \A c1, c2 \in Callers :
            (/\ CoinDone(c1)' /\ CoinDone(c2)'
             /\ LastCoin(c1)' = LastCoin(c2)'
             /\ threshold'[c1] = threshold'[c2]
             /\ price_dict'[c1] = price_dict'[c2]) => spreads'[c1] = spreads'[c2]
      ]_vars

\* two scans run at the same time, both past the first coin with the same
\* threshold and the same two-venue snapshot, one of them already further on
\* in its requests for the next coin
C16_Witness ==
    /\ CoinDone(1) /\ CoinDone(2)
    /\ coin_idx[1] = 2 /\ coin_idx[2] = 2
    /\ threshold[1] = threshold[2]
    /\ Len(price_dict[1]) = 2
    /\ price_dict[1] = price_dict[2]
    /\ spreads[1] # << >>
    /\ finished(1) = 1 /\ finished(2) = 0

-----------------------------------------------------------------------------
(* The price report *)

\* a price in cents to the nearest whole dollar, a tie going to the even one
NearestDollar(p) ==
    LET q == p \div 100
        r == p % 100
    IN  IF r > 50 \/ (r = 50 /\ q % 2 = 1) THEN q + 1 ELSE q

\* the report of a coin: the venues whose request succeeded, in the order of
\* DEXS, each with what shown(price) gives
ReportOf(coin, outcome, shown(_)) ==
    [coin  |-> coin,
     lines |-> Flatten([i \in 1..Len(DEXS) |->
                  IF Succeeded(outcome[DEXS[i]])
                  THEN << <<upper(DEXS[i]), shown(outcome[DEXS[i]].markPrice[1])>> >>
                  ELSE << >>])]

\* the price as it is, in cents
Cents(p) == p

\* a report with its dollars turned into cents
InCents(report) ==
    [coin  |-> report.coin,
     lines |-> [i \in 1..Len(report.lines) |->
                  <<report.lines[i][1], report.lines[i][2] * 100>>]]

\* caller c's scan ends now, with no qualifying Spread
EndsEmpty(c) == CoinStep(c) /\ Answering(c)' /\ all_spreads'[c] = << >>

-----------------------------------------------------------------------------
(* The threshold of a running scan *)

\* caller c's scan is between its first line and its return
Scanning(c) == pc[c] \in {"notify", "gather", "answer"}

\* C18: the threshold of a scan is read once, before the first request, and
\* stays what it is until the scan returns, whatever callbacks are handled
\* at the scan's awaits: every coin is filtered against it and the price
\* report shows it, also when the store holds another value by then
C18_ThresholdFixedDuringScan ==
    [][\A c \in Callers :
          /\ (Scanning(c) /\ Scanning(c)') => threshold'[c] = threshold[c]
          /\ (pc[c] = "notify" /\ pc'[c] = "gather") => prices_text[c] = << >>
          /\ CoinStep(c) =>
                /\ spreads'[c] = coin_spreads(COINS[coin_idx[c]],
                                              SnapshotOf(Outcome(c)), threshold[c])
                /\ \A i \in 1..Len(all_spreads'[c]) :
                      NetAtLeast(all_spreads'[c][i], threshold[c])
          /\ (Answering(c)' /\ all_spreads'[c] = << >>) =>
                reply'[c][1].threshold = threshold'[c]
      ]_vars

\* a scan that started with the default threshold 1 holds a Spread of net 8
\* while the store holds the 10 its caller has sent since
C18_Witness ==
    \E c \in Callers :
        /\ pc[c] = "gather"
        /\ threshold[c] = MIN_PROFIT
        /\ EntryOf(user_settings, c) = Some(10)
        /\ all_spreads[c] # << >>
        /\ ~NetAtLeast(all_spreads[c][1], 10)

====
